---- MODULE Spec2Model ----
(***************************************************************************)
(* Model of script.js: the sales-total page script.                        *)
(*                                                                         *)
(* A JavaScript string is a sequence of one-character strings; a character *)
(* outside printable ASCII, tab, LF, FF and CR is the string "U+<code>".   *)
(* Indices passed between operators are JavaScript's 0-based indices.      *)
(***************************************************************************)
EXTENDS Integers, Sequences, FiniteSets, TLC

VARIABLES
    attachments,      \* the attachment list of init (script.js:91-96)
    initialClassList, \* the class list the element had at script load
    readyState,       \* document.readyState
    listenerAdded,    \* a DOMContentLoaded listener calling init is registered
    pc,               \* position of the run of init
    response,         \* what the promise of fetch(url) settled to
    body,             \* what the promise of response.text() settled to
    csvText,          \* init's csvText
    delimiter,        \* parseCsv's delimiter
    headers,          \* init's headers: [defined, value]
    rows,             \* init's rows
    salesColumnIndex, \* init's salesColumnIndex
    totalSales,       \* init's totalSales
    thrown,           \* the error caught by init's catch block, or "none"
    textContent,      \* totalSalesElement.textContent
    classList,        \* totalSalesElement.classList
    textWrites        \* number of assignments made to textContent

vars == <<attachments, initialClassList, readyState, listenerAdded, pc,
          response, body, csvText, delimiter, headers, rows,
          salesColumnIndex, totalSales, thrown, textContent, classList,
          textWrites>>

----------------------------------------------------------------------------
(* Characters *)

Digits == <<"0", "1", "2", "3", "4", "5", "6", "7", "8", "9">>

UpperCase ==
    <<"A", "B", "C", "D", "E", "F", "G", "H", "I", "J", "K", "L", "M",
      "N", "O", "P", "Q", "R", "S", "T", "U", "V", "W", "X", "Y", "Z">>

LowerCase ==
    <<"a", "b", "c", "d", "e", "f", "g", "h", "i", "j", "k", "l", "m",
      "n", "o", "p", "q", "r", "s", "t", "u", "v", "w", "x", "y", "z">>

\* the base64 alphabet of atob, in value order
Base64Alphabet == UpperCase \o LowerCase \o Digits \o <<"+", "/">>

\* the characters with codes 32 .. 126, in code order (the grave accent, which
\* a string literal cannot hold, is "U+96")
AsciiPrintable ==
    <<" ", "!", "\"", "#", "$", "%", "&", "'", "(", ")", "*", "+", ",", "-",
      ".", "/">> \o Digits \o <<":", ";", "<", "=", ">", "?", "@">> \o
    UpperCase \o <<"[", "\\", "]", "^", "_", "U+96">> \o LowerCase \o
    <<"{", "|", "}", "~">>

IsDigit(c) == \E i \in 1..10 : Digits[i] = c

DigitVal(c) == (CHOOSE i \in 1..10 : Digits[i] = c) - 1

HexDigits == Digits \o <<"a", "b", "c", "d", "e", "f">>

IsHex(c) ==
    \E i \in 1..16 : HexDigits[i] = c \/ (i > 10 /\ UpperCase[i - 10] = c)

HexVal(c) ==
    (CHOOSE i \in 1..16 : HexDigits[i] = c \/ (i > 10 /\ UpperCase[i - 10] = c)) - 1

\* String.fromCodePoint
CharOf(cp) ==
    IF cp \in 32..126 THEN AsciiPrintable[cp - 31]
    ELSE IF cp = 9 THEN "\t"
    ELSE IF cp = 10 THEN "\n"
    ELSE IF cp = 12 THEN "\f"
    ELSE IF cp = 13 THEN "\r"
    ELSE "U+" \o ToString(cp)

\* WhiteSpace and LineTerminator of ECMAScript (trim, parseFloat)
WhiteSpace ==
    {" ", "\t", "\n", "\f", "\r", "U+11", "U+160", "U+5760", "U+8232",
     "U+8233", "U+8239", "U+8287", "U+12288", "U+65279"}
    \cup {"U+" \o ToString(cp) : cp \in 8192..8202}

\* the whitespace atob strips: ASCII whitespace
AsciiWhiteSpace == {" ", "\t", "\n", "\f", "\r"}

----------------------------------------------------------------------------
(* String methods *)

startsWith(s, p) == Len(s) >= Len(p) /\ SubSeq(s, 1, Len(p)) = p

endsWith(s, p) == Len(s) >= Len(p) /\ SubSeq(s, Len(s) - Len(p) + 1, Len(s)) = p

\* s.indexOf(c) for a one-character c
indexOf(s, c) ==
    IF \E i \in 1..Len(s) : s[i] = c
    THEN (CHOOSE i \in 1..Len(s) : s[i] = c /\ \A j \in 1..(i - 1) : s[j] # c) - 1
    ELSE -1

Clamp(i, n) == IF i < 0 THEN 0 ELSE IF i > n THEN n ELSE i

\* s.substring(a, b): both ends clamped to 0 .. length, swapped when a > b
substring(s, a, b) ==
    LET ca == Clamp(a, Len(s))
        cb == Clamp(b, Len(s))
        lo == IF ca <= cb THEN ca ELSE cb
        hi == IF ca <= cb THEN cb ELSE ca
    IN  SubSeq(s, lo + 1, hi)

\* s.split(d) for a one-character d
RECURSIVE split(_, _)
split(s, d) ==
    LET i == indexOf(s, d)
    IN  IF i = -1 THEN <<s>>
        ELSE <<SubSeq(s, 1, i)>> \o split(SubSeq(s, i + 2, Len(s)), d)

\* s.includes(sub)
includes(s, sub) ==
    \E i \in 0..(Len(s) - Len(sub)) : SubSeq(s, i + 1, i + Len(sub)) = sub

\* array.includes(x)
arrayIncludes(a, x) == \E i \in 1..Len(a) : a[i] = x

toLowerCaseChar(c) ==
    IF \E i \in 1..26 : UpperCase[i] = c
    THEN LowerCase[CHOOSE i \in 1..26 : UpperCase[i] = c]
    ELSE c

toLowerCase(s) == [i \in 1..Len(s) |-> toLowerCaseChar(s[i])]

RECURSIVE trimStart(_)
trimStart(s) ==
    IF s # <<>> /\ Head(s) \in WhiteSpace THEN trimStart(Tail(s)) ELSE s

RECURSIVE trimEnd(_)
trimEnd(s) ==
    IF s # <<>> /\ s[Len(s)] \in WhiteSpace
    THEN trimEnd(SubSeq(s, 1, Len(s) - 1))
    ELSE s

trim(s) == trimEnd(trimStart(s))

Min(S) == CHOOSE x \in S : \A y \in S : x <= y

\* s.replace(/\r\n/g, '\n'): the leftmost match is replaced and the search
\* goes on after it
RECURSIVE replaceCRLF(_)
replaceCRLF(s) ==
    LET matches == {i \in 1..(Len(s) - 1) : s[i] = "\r" /\ s[i + 1] = "\n"}
    IN  IF matches = {} THEN s
        ELSE SubSeq(s, 1, Min(matches) - 1) \o <<"\n">>
             \o replaceCRLF(SubSeq(s, Min(matches) + 2, Len(s)))

\* s.replace(/\r/g, '\n')
replaceCR(s) == [i \in 1..Len(s) |-> IF s[i] = "\r" THEN "\n" ELSE s[i]]

\* s.replace(/""/g, '"'): matches are found left to right, without overlap
RECURSIVE replaceQuotes(_)
replaceQuotes(s) ==
    LET matches == {i \in 1..(Len(s) - 1) : s[i] = "\"" /\ s[i + 1] = "\""}
    IN  IF matches = {} THEN s
        ELSE SubSeq(s, 1, Min(matches) - 1) \o <<"\"">>
             \o replaceQuotes(SubSeq(s, Min(matches) + 2, Len(s)))

\* (s.match(new RegExp(c, 'g')) || []).length for a one-character c
matchCount(s, c) == Cardinality({i \in 1..Len(s) : s[i] = c})

\* lines.filter(line => line.trim() !== '')
RECURSIVE filterNonBlank(_)
filterNonBlank(lines) ==
    IF lines = <<>> THEN <<>>
    ELSE (IF trim(Head(lines)) # <<>> THEN <<Head(lines)>> ELSE <<>>)
         \o filterNonBlank(Tail(lines))

----------------------------------------------------------------------------
(* Numbers.  A Number value is NaN, plus or minus Infinity, or the finite   *)
(* decimal m / 10^e, kept with the least e >= 0.  The decimals the inputs   *)
(* below produce have at most two fraction digits and magnitudes far below  *)
(* 2^53, where double arithmetic and toFixed(2) agree with exact decimal    *)
(* arithmetic on them.                                                      *)

NaN == [kind |-> "NaN", m |-> 0, e |-> 0]

Infinity(sign) == [kind |-> "Infinity", m |-> sign, e |-> 0]

RECURSIVE Pow10(_)
Pow10(n) == IF n = 0 THEN 1 ELSE 10 * Pow10(n - 1)

RECURSIVE Finite(_, _)
Finite(m, e) ==
    IF e > 0 /\ m % 10 = 0 THEN Finite(m \div 10, e - 1)
    ELSE IF e < 0 THEN Finite(m * Pow10(-e), 0)
    ELSE [kind |-> "finite", m |-> m, e |-> e]

isNaN(x) == x.kind = "NaN"

\* x + y
Plus(x, y) ==
    IF isNaN(x) \/ isNaN(y) THEN NaN
    ELSE IF x.kind = "Infinity" /\ y.kind = "Infinity"
    THEN (IF x.m = y.m THEN x ELSE NaN)
    ELSE IF x.kind = "Infinity" THEN x
    ELSE IF y.kind = "Infinity" THEN y
    ELSE LET e == IF x.e >= y.e THEN x.e ELSE y.e
         IN  Finite(x.m * Pow10(e - x.e) + y.m * Pow10(e - y.e), e)

\* the decimal digits of the natural number n
RECURSIVE DigitString(_)
DigitString(n) ==
    IF n < 10 THEN <<Digits[n + 1]>>
    ELSE DigitString(n \div 10) \o <<Digits[(n % 10) + 1]>>

\* the value of a run of decimal digits
RECURSIVE DigitsValue(_)
DigitsValue(ds) ==
    IF ds = <<>> THEN 0
    ELSE 10 * DigitsValue(SubSeq(ds, 1, Len(ds) - 1)) + DigitVal(ds[Len(ds)])

\* the longest prefix of s made of decimal digits
RECURSIVE DigitRun(_)
DigitRun(s) ==
    IF s # <<>> /\ IsDigit(Head(s)) THEN <<Head(s)>> \o DigitRun(Tail(s)) ELSE <<>>

\* x.toFixed(2): NaN and the infinities print by name; a finite x prints as
\* the integer n nearest to |x| * 100 (the larger on a tie) with a point
\* before its last two digits, after "-" when x < 0.  (From 1e21 on toFixed
\* prints in exponent notation; no Number of this model is that large.)
toFixedDigits(negative, ds) ==
    (IF negative THEN <<"-">> ELSE <<>>)
    \o SubSeq(ds, 1, Len(ds) - 2) \o <<".">> \o SubSeq(ds, Len(ds) - 1, Len(ds))

\* the digits of n, padded with zeros to three at least
PaddedDigits(ds) ==
    IF Len(ds) < 3 THEN [i \in 1..(3 - Len(ds)) |-> "0"] \o ds ELSE ds

toFixedFinite(negative, abs, e) ==
    toFixedDigits(negative,
        PaddedDigits(DigitString(
            IF e <= 2 THEN abs * Pow10(2 - e)
            ELSE (abs + 5 * Pow10(e - 3)) \div Pow10(e - 2))))

toFixed2(x) ==
    IF isNaN(x) THEN <<"N", "a", "N">>
    ELSE IF x.kind = "Infinity"
    THEN (IF x.m < 0 THEN <<"-">> ELSE <<>>)
         \o <<"I", "n", "f", "i", "n", "i", "t", "y">>
    ELSE toFixedFinite(x.m < 0, IF x.m < 0 THEN -x.m ELSE x.m, x.e)

InfinityName == <<"I", "n", "f", "i", "n", "i", "t", "y">>

\* the number of decimal digits s has from index n (0-based) on
DigitsAt(s, n) == Len(DigitRun(SubSeq(s, n + 1, Len(s))))

\* the value of the signed run of digits s starts with, 0 when it has none
SignedDigitsValue(s) ==
    IF s # <<>> /\ Head(s) = "-" THEN -DigitsValue(DigitRun(Tail(s)))
    ELSE IF s # <<>> /\ Head(s) = "+" THEN DigitsValue(DigitRun(Tail(s)))
    ELSE DigitsValue(DigitRun(s))

\* the value of the ExponentPart u has at index n, 0 when it has none
ExponentAt(u, n) ==
    IF n < Len(u) /\ u[n + 1] \in {"e", "E"}
    THEN SignedDigitsValue(SubSeq(u, n + 2, Len(u)))
    ELSE 0

\* the value of the literal that starts u: int digits, then point (0 or 1)
\* characters of decimal point, then frac digits, then its exponent
DecimalValue(u, sign, int, point, frac) ==
    IF int = 0 /\ frac = 0 THEN NaN
    ELSE Finite(sign * DigitsValue(SubSeq(u, 1, int)
                                   \o SubSeq(u, int + 2, int + 1 + frac)),
                frac - ExponentAt(u, int + point + frac))

\* the unsigned part of parseFloat's literal
parseUnsigned(u, sign, int) ==
    IF startsWith(u, InfinityName) THEN Infinity(sign)
    ELSE IF int < Len(u) /\ u[int + 1] = "."
    THEN DecimalValue(u, sign, int, 1, DigitsAt(u, int + 1))
    ELSE DecimalValue(u, sign, int, 0, 0)

\* parseFloat of a string without leading white space
parseTrimmed(t) ==
    IF t # <<>> /\ Head(t) \in {"+", "-"}
    THEN parseUnsigned(Tail(t), IF Head(t) = "-" THEN -1 ELSE 1,
                       DigitsAt(t, 1))
    ELSE parseUnsigned(t, 1, DigitsAt(t, 0))

\* parseFloat with the reading of parseInt: the signed run of digits alone
parseFloat_AsParseInt(s) ==
    LET t == trimStart(s)
        signed == t # <<>> /\ Head(t) \in {"+", "-"}
        ds == DigitRun(IF signed THEN Tail(t) ELSE t)
    IN  IF ds = <<>> THEN NaN
        ELSE Finite((IF signed /\ Head(t) = "-" THEN -1 ELSE 1) * DigitsValue(ds), 0)

\* parseFloat(s): the longest prefix of the trimmed string that is a
\* StrDecimalLiteral (sign, then Infinity or digits with an optional
\* fraction and an optional exponent); NaN when there is none
parseFloat(s) == parseTrimmed(trimStart(s))

\* the value of an array element or of a missing one (undefined), as the
\* string parseFloat converts its argument to
Undefined == <<"u", "n", "d", "e", "f", "i", "n", "e", "d">>

ElementAt(a, i) == IF i >= 0 /\ i < Len(a) THEN a[i + 1] ELSE Undefined

----------------------------------------------------------------------------
(* Decoding *)

\* the UTF-8 decoder of TextDecoder (not fatal): the code points of a byte
\* sequence, -1 standing for each decoding error.  st holds the decoder's
\* code point, bytes seen, bytes needed and lower and upper boundary.  A run
\* of ASCII bytes is decoded in one step.
Utf8Start == [cp |-> 0, seen |-> 0, needed |-> 0, lower |-> 128, upper |-> 191]

RECURSIVE Utf8CodePoints(_, _, _)
Utf8CodePoints(bytes, i, st) ==
    IF i > Len(bytes) THEN (IF st.needed # 0 THEN <<-1>> ELSE <<>>)
    ELSE LET b == bytes[i] IN
      IF st.needed = 0 THEN
        IF b <= 127
        THEN LET j == Min({k \in i..(Len(bytes) + 1) :
                              k > Len(bytes) \/ bytes[k] > 127})
             IN  SubSeq(bytes, i, j - 1) \o Utf8CodePoints(bytes, j, Utf8Start)
        ELSE IF b \in 194..223
        THEN Utf8CodePoints(bytes, i + 1,
                 [Utf8Start EXCEPT !.needed = 1, !.cp = b % 32])
        ELSE IF b \in 224..239
        THEN Utf8CodePoints(bytes, i + 1,
                 [Utf8Start EXCEPT !.needed = 2, !.cp = b % 16,
                                   !.lower = IF b = 224 THEN 160 ELSE 128,
                                   !.upper = IF b = 237 THEN 159 ELSE 191])
        ELSE IF b \in 240..244
        THEN Utf8CodePoints(bytes, i + 1,
                 [Utf8Start EXCEPT !.needed = 3, !.cp = b % 8,
                                   !.lower = IF b = 240 THEN 144 ELSE 128,
                                   !.upper = IF b = 244 THEN 143 ELSE 191])
        ELSE <<-1>> \o Utf8CodePoints(bytes, i + 1, Utf8Start)
      ELSE IF b < st.lower \/ b > st.upper
      THEN <<-1>> \o Utf8CodePoints(bytes, i, Utf8Start)
      ELSE IF st.seen + 1 # st.needed
      THEN Utf8CodePoints(bytes, i + 1,
               [st EXCEPT !.cp = st.cp * 64 + (b % 64), !.seen = st.seen + 1,
                          !.lower = 128, !.upper = 191])
      ELSE <<st.cp * 64 + (b % 64)>> \o Utf8CodePoints(bytes, i + 1, Utf8Start)

\* new TextDecoder().decode(bytes): an error decodes to U+FFFD, and a
\* leading byte order mark is dropped
TextDecoderDecode(bytes) ==
    LET cps == Utf8CodePoints(bytes, 1, Utf8Start)
        kept == IF cps # <<>> /\ Head(cps) = 65279 THEN Tail(cps) ELSE cps
    IN  [i \in 1..Len(kept) |-> IF kept[i] = -1 THEN CharOf(65533) ELSE CharOf(kept[i])]

IsBase64Char(c) == \E i \in 1..64 : Base64Alphabet[i] = c

Base64Val(c) == (CHOOSE i \in 1..64 : Base64Alphabet[i] = c) - 1

RECURSIVE removeAsciiWhiteSpace(_)
removeAsciiWhiteSpace(s) ==
    LET spaces == {i \in 1..Len(s) : s[i] \in AsciiWhiteSpace}
    IN  IF spaces = {} THEN s
        ELSE SubSeq(s, 1, Min(spaces) - 1)
             \o removeAsciiWhiteSpace(SubSeq(s, Min(spaces) + 1, Len(s)))

\* the bytes of a run of base64 characters: 4 characters give 3 bytes, a
\* rest of 3 gives 2 and a rest of 2 gives 1 (the spare bits are dropped).
\* Byte j comes from the characters at p and p + 1 of its group of 4.
Base64Bytes(s) ==
    LET count == 3 * (Len(s) \div 4)
                 + (IF Len(s) % 4 = 0 THEN 0 ELSE (Len(s) % 4) - 1)
        byte(j) ==
            LET p == 4 * ((j - 1) \div 3) + ((j - 1) % 3) + 1
                hi == Base64Val(s[p])
                lo == Base64Val(s[p + 1])
            IN  IF (j - 1) % 3 = 0 THEN hi * 4 + (lo \div 16)
                ELSE IF (j - 1) % 3 = 1 THEN (hi % 16) * 16 + (lo \div 4)
                ELSE (hi % 4) * 64 + lo
    IN  [j \in 1..count |-> byte(j)]

\* atob(b64), the forgiving base64 decode: [ok, bytes]
atob(b64) ==
    LET t == removeAsciiWhiteSpace(b64)
        u == IF Len(t) % 4 = 0 /\ endsWith(t, <<"=", "=">>)
             THEN SubSeq(t, 1, Len(t) - 2)
             ELSE IF Len(t) % 4 = 0 /\ endsWith(t, <<"=">>)
             THEN SubSeq(t, 1, Len(t) - 1)
             ELSE t
    IN  IF Len(u) % 4 = 1 \/ \E i \in 1..Len(u) : ~IsBase64Char(u[i])
        THEN [ok |-> FALSE, bytes |-> <<>>]
        ELSE [ok |-> TRUE, bytes |-> Base64Bytes(u)]

\* decodeBase64ToText(b64): [error, text]
decodeBase64ToText(b64) ==
    LET binary == atob(b64)
    IN  IF ~binary.ok
        THEN [error |-> "Failed to decode base64 data", text |-> <<>>]
        ELSE [error |-> "none", text |-> TextDecoderDecode(binary.bytes)]

\* the byte that the escape at index k (0-based) of s stands for, or -1
\* when s has no %XX there
EscapedByte(s, k) ==
    IF k >= 0 /\ k + 2 < Len(s) /\ s[k + 1] = "%" /\ IsHex(s[k + 2]) /\ IsHex(s[k + 3])
    THEN HexVal(s[k + 2]) * 16 + HexVal(s[k + 3])
    ELSE -1

\* decodeURIComponent(s) from index k on: [error, text].  Characters up to
\* the next "%" are copied.  An escape below 0x80 is its character; a higher
\* one starts a UTF-8 sequence of n escapes that must encode one code point;
\* anything else is a URIError.
RECURSIVE decodeURIComponentFrom(_, _)
decodeURIComponentFrom(s, k) ==
    IF k >= Len(s) THEN [error |-> "none", text |-> <<>>]
    ELSE IF s[k + 1] # "%"
    THEN LET next == Min({j \in k..Len(s) : j = Len(s) \/ s[j + 1] = "%"})
             rest == decodeURIComponentFrom(s, next)
         IN  IF rest.error # "none" THEN rest
             ELSE [rest EXCEPT !.text = SubSeq(s, k + 1, next) \o rest.text]
    ELSE LET b == EscapedByte(s, k)
             n == IF b < 128 THEN 1
                  ELSE IF b \in 192..223 THEN 2
                  ELSE IF b \in 224..239 THEN 3
                  ELSE IF b \in 240..247 THEN 4
                  ELSE 0
             octets == [j \in 1..n |-> EscapedByte(s, k + 3 * (j - 1))]
             cps == Utf8CodePoints(octets, 1, Utf8Start)
         IN  IF b = -1 \/ n = 0 \/ \E j \in 1..n : octets[j] = -1
                \/ Len(cps) # 1 \/ cps[1] = -1
             THEN [error |-> "URIError", text |-> <<>>]
             ELSE LET rest == decodeURIComponentFrom(s, k + 3 * n)
                  IN  IF rest.error # "none" THEN rest
                      ELSE [rest EXCEPT !.text = <<CharOf(cps[1])>> \o rest.text]

decodeURIComponent(s) == decodeURIComponentFrom(s, 0)

----------------------------------------------------------------------------
(* parseDataUrl and parseCsv *)

DataScheme == <<"d", "a", "t", "a", ":">>

\* parseDataUrl(url): [error, mime, isBase64, payload]
parseDataUrl(url) ==
    LET commaIndex == indexOf(url, ",")
        header == substring(url, 5, commaIndex)
        payload == substring(url, commaIndex + 1, Len(url))
        parts == split(header, ";")
        mime == IF parts[1] # <<>> THEN parts[1]
                ELSE <<"t", "e", "x", "t", "/", "p", "l", "a", "i", "n">>
        isBase64 == arrayIncludes(parts, <<"b", "a", "s", "e", "6", "4">>)
        failed(e) == [error |-> e, mime |-> <<>>, isBase64 |-> FALSE, payload |-> <<>>]
    IN  IF ~startsWith(url, DataScheme) THEN failed("Invalid data URL")
        ELSE IF commaIndex = -1 THEN failed("Invalid data URL format")
        ELSE [error |-> "none", mime |-> mime, isBase64 |-> isBase64,
              payload |-> payload]

Delimiters == <<",", ";", "\t">>

\* the delimiter loop with count >= maxCount: the last of the highest wins
RECURSIVE detectFrom_LastWins(_, _, _, _)
detectFrom_LastWins(line, k, chosen, maxCount) ==
    IF k > Len(Delimiters) THEN chosen
    ELSE IF matchCount(line, Delimiters[k]) >= maxCount
    THEN detectFrom_LastWins(line, k + 1, Delimiters[k],
                             matchCount(line, Delimiters[k]))
    ELSE detectFrom_LastWins(line, k + 1, chosen, maxCount)

\* the delimiter loop of parseCsv over delimiters[k ..], entered with the
\* delimiter and maxCount chosen so far
RECURSIVE detectFrom(_, _, _, _)
detectFrom(line, k, chosen, maxCount) ==
    IF k > Len(Delimiters) THEN chosen
    ELSE LET count == matchCount(line, Delimiters[k])
         IN  IF count > maxCount
             THEN detectFrom(line, k + 1, Delimiters[k], count)
             ELSE detectFrom(line, k + 1, chosen, maxCount)

\* the delimiter parseCsv detects on its first line
detectDelimiter(line) == detectFrom(line, 1, ",", 0)

\* the field callback with slice(1, -1) for substring(1, length - 1)
unquoteField_Slice(field) ==
    IF startsWith(field, <<"\"">>) /\ endsWith(field, <<"\"">>)
    THEN replaceQuotes(SubSeq(field, 2, Len(field) - 1))
    ELSE field

\* the field callback of parseCsv: remove quotes if present
unquoteField(field) ==
    IF startsWith(field, <<"\"">>) /\ endsWith(field, <<"\"">>)
    THEN replaceQuotes(substring(field, 1, Len(field) - 1))
    ELSE field

\* the line callback of parseCsv
parseLine(line, delim) ==
    LET fields == split(line, delim)
    IN  [i \in 1..Len(fields) |-> unquoteField(fields[i])]

\* firstRow.some for firstRow.every
hasHeader_Some(firstRow) == \E i \in 1..Len(firstRow) : isNaN(parseFloat(firstRow[i]))

\* firstRow.every(cell => isNaN(parseFloat(cell)))
hasHeader(firstRow) == \A i \in 1..Len(firstRow) : isNaN(parseFloat(firstRow[i]))

\* lines.map(line => ...): the rows of parseCsv before it infers headers
parseLines(lines, delim) ==
    [i \in 1..Len(lines) |-> parseLine(lines[i], delim)]

\* "Infer headers" of parseCsv
inferHeaders(parsed, delim) ==
    IF hasHeader(parsed[1])
    THEN [headers |-> [defined |-> TRUE, value |-> parsed[1]],
          rows |-> Tail(parsed), delimiter |-> delim]
    ELSE [headers |-> [defined |-> FALSE, value |-> <<>>],
          rows |-> parsed, delimiter |-> delim]

\* parseCsv from its check of lines.length on
parseNonBlank(lines) ==
    IF Len(lines) = 0
    THEN [headers |-> [defined |-> TRUE, value |-> <<>>], rows |-> <<>>,
          delimiter |-> "none"]
    ELSE inferHeaders(parseLines(lines, detectDelimiter(lines[1])),
                      detectDelimiter(lines[1]))

\* text.replace(/\r\n/g, '\n').replace(/\r/g, '\n'), split and filtered
nonBlankLines(text) ==
    filterNonBlank(split(replaceCR(replaceCRLF(text)), "\n"))

\* parseCsv(text): [headers, rows], with the delimiter it detected.  headers
\* is [defined, value]; the result of the header-less branch has no headers
\* property (defined is FALSE).
parseCsv(text) == parseNonBlank(nonBlankLines(text))

----------------------------------------------------------------------------
(* init *)

ErrorText == <<"E", "r", "r", "o", "r", " ", "l", "o", "a", "d", "i", "n", "g", " ", "d", "a", "t", "a">>

\* attachments.find(att => att.name === 'data.csv'): its index, 0 when none
findAttachment(atts) ==
    IF \E i \in 1..Len(atts) : atts[i].name = "data.csv"
    THEN CHOOSE i \in 1..Len(atts) :
             atts[i].name = "data.csv"
             /\ \A j \in 1..(i - 1) : atts[j].name # "data.csv"
    ELSE 0

\* !mime.includes('csv') && !mime.includes('text')
mimeRejected(mime) ==
    ~includes(mime, <<"c", "s", "v">>) /\ ~includes(mime, <<"t", "e", "x", "t">>)

\* the predicate of headers.findIndex
isSalesHeader(header) ==
    includes(toLowerCase(header), <<"s", "a", "l", "e", "s">>)
    \/ includes(toLowerCase(header), <<"s", "a", "l", "e">>)

\* array.findIndex(isSalesHeader)
findSalesHeader(hs) ==
    IF \E i \in 1..Len(hs) : isSalesHeader(hs[i])
    THEN (CHOOSE i \in 1..Len(hs) :
              isSalesHeader(hs[i]) /\ \A j \in 1..(i - 1) : ~isSalesHeader(hs[j])) - 1
    ELSE -1

\* rows.some for rows.every
columnIsNumeric_Some(rs, i) ==
    \E r \in 1..Len(rs) : ~isNaN(parseFloat(ElementAt(rs[r], i)))

\* rows.every(row => !isNaN(parseFloat(row[i])))
columnIsNumeric(rs, i) ==
    \A r \in 1..Len(rs) : ~isNaN(parseFloat(ElementAt(rs[r], i)))

\* the inference loop over the columns i .. of rows[0]
RECURSIVE inferFrom(_, _)
inferFrom(rs, i) ==
    IF i >= Len(rs[1]) THEN -1
    ELSE IF columnIsNumeric(rs, i) THEN i
    ELSE inferFrom(rs, i + 1)

\* the numeric column init infers, -1 when there is none
inferNumericColumn(rs) == IF Len(rs) > 0 THEN inferFrom(rs, 0) ELSE -1

\* salesColumnIndex as init leaves it before its check against -1
findSalesColumn(hs, rs) ==
    LET byName == IF hs.defined THEN findSalesHeader(hs.value) ELSE -1
    IN  IF byName # -1 THEN byName ELSE inferNumericColumn(rs)

\* the summing loop without its isNaN check
RECURSIVE sumFrom_NoNaNCheck(_, _, _, _)
sumFrom_NoNaNCheck(rs, index, k, total) ==
    IF k > Len(rs) THEN total
    ELSE sumFrom_NoNaNCheck(rs, index, k + 1,
                            Plus(total, parseFloat(ElementAt(rs[k], index))))

\* the summing loop of init over rows[k ..], entered with totalSales = total
RECURSIVE sumFrom(_, _, _, _)
sumFrom(rs, index, k, total) ==
    IF k > Len(rs) THEN total
    ELSE LET value == parseFloat(ElementAt(rs[k], index))
         IN  sumFrom(rs, index, k + 1,
                     IF ~isNaN(value) THEN Plus(total, value) ELSE total)

calculateTotal(rs, index) == sumFrom(rs, index, 1, Finite(0, 0))

\* the locals of a run of init that has computed nothing yet
Locals ==
    [csvText |-> <<>>, delimiter |-> "none",
     headers |-> [defined |-> FALSE, value |-> <<>>], rows |-> <<>>,
     salesColumnIndex |-> -1, totalSales |-> Finite(0, 0), thrown |-> "none"]

Throw(locals, error) == [locals EXCEPT !.thrown = error]

\* the success display of init
displayTotal(classes) == (classes \ {"loading", "error"}) \cup {"success"}

\* the catch block removing 'loading' alone
displayError_KeepsSuccess(classes) == (classes \ {"loading"}) \cup {"error"}

\* the catch block of init
displayError(classes) == (classes \ {"loading", "success"}) \cup {"error"}

\* a run whose error display is not confined to the catch block: it follows
\* the success display too
Complete_WritesBoth(locals) ==
    /\ pc' = "done"
    /\ csvText' = locals.csvText
    /\ delimiter' = locals.delimiter
    /\ headers' = locals.headers
    /\ rows' = locals.rows
    /\ salesColumnIndex' = locals.salesColumnIndex
    /\ totalSales' = locals.totalSales
    /\ thrown' = locals.thrown
    /\ textWrites' = textWrites + (IF locals.thrown = "none" THEN 2 ELSE 1)
    /\ textContent' = ErrorText
    /\ classList' = displayError(classList)

\* the run of init ends with these locals: it writes the element once, in
\* its try block or in its catch block
Complete(locals) ==
    /\ pc' = "done"
    /\ csvText' = locals.csvText
    /\ delimiter' = locals.delimiter
    /\ headers' = locals.headers
    /\ rows' = locals.rows
    /\ salesColumnIndex' = locals.salesColumnIndex
    /\ totalSales' = locals.totalSales
    /\ thrown' = locals.thrown
    /\ textWrites' = textWrites + 1
    /\ IF locals.thrown = "none"
       THEN /\ textContent' = toFixed2(locals.totalSales)
            /\ classList' = displayTotal(classList)
       ELSE /\ textContent' = ErrorText
            /\ classList' = displayError(classList)

\* init from its check of salesColumnIndex to its end.  (Each local is
\* bound once, as \E x \in {value}, and then used.)
Aggregate(parsed) ==
    IF parsed.salesColumnIndex = -1
    THEN Complete(Throw(parsed, "Could not identify sales column"))
    ELSE \E total \in {calculateTotal(parsed.rows, parsed.salesColumnIndex)} :
             Complete([parsed EXCEPT !.totalSales = total])

\* init from "Parse CSV data" to its end
ProcessCsv(text) ==
    \E table \in {parseCsv(text)} :
        \E index \in {findSalesColumn(table.headers, table.rows)} :
            Aggregate([Locals EXCEPT
                           !.csvText = text, !.delimiter = table.delimiter,
                           !.headers = table.headers, !.rows = table.rows,
                           !.salesColumnIndex = index])

\* the payload of a data: url as init decodes it: [error, text]
decodePayload(parts) ==
    IF parts.isBase64 THEN decodeBase64ToText(parts.payload)
    ELSE decodeURIComponent(parts.payload)

\* the data: branch of init, to the end of init
ProcessDataUrl(url) ==
    \E parts \in {parseDataUrl(url)} :
        IF parts.error # "none" THEN Complete(Throw(Locals, parts.error))
        ELSE IF mimeRejected(parts.mime)
        THEN Complete(Throw(Locals, "Invalid MIME type for CSV data"))
        ELSE \E decoded \in {decodePayload(parts)} :
                 IF decoded.error # "none"
                 THEN Complete(Throw(Locals, decoded.error))
                 ELSE ProcessCsv(decoded.text)

\* init from its call to its first await, or to its end
StartInit ==
    \E found \in {findAttachment(attachments)} :
        IF found = 0
        THEN /\ Complete(Throw(Locals, "CSV attachment not found"))
             /\ UNCHANGED <<response, body>>
        ELSE IF startsWith(attachments[found].url, DataScheme)
        THEN /\ ProcessDataUrl(attachments[found].url)
             /\ UNCHANGED <<response, body>>
        ELSE /\ pc' = "awaitFetch"
             /\ response' = "pending"
             /\ UNCHANGED <<body, csvText, delimiter, headers, rows,
                            salesColumnIndex, totalSales, thrown, textContent,
                            classList, textWrites>>

----------------------------------------------------------------------------
(* Inputs.  The attachment list is a literal of init; the model draws it   *)
(* from a set that holds that literal, so that every branch of init runs.  *)
(* The text a remote source yields is drawn from CsvTexts.                 *)

MaxChars == 4

MaxDataRows == 2

\* the strings over alphabet of at most n characters
Strings(alphabet, n) == UNION {[1..k -> alphabet] : k \in 0..n}

\* the url of the attachment literal's payload
BuiltInPayload ==
    <<"U", "H", "J", "v", "Z", "H", "V", "j", "d", "H", "M", "s", "U", "2",
      "F", "s", "Z", "X", "M", "K", "U", "G", "h", "v", "b", "m", "V", "z",
      "L", "D", "E", "w", "M", "D", "A", "K", "Q", "m", "9", "v", "a", "3",
      "M", "s", "M", "T", "I", "z", "L", "j", "Q", "1", "C", "k", "5", "v",
      "d", "G", "V", "i", "b", "2", "9", "r", "c", "y", "w", "x", "M", "T",
      "E", "u", "M", "T", "E", "K">>

BuiltInUrl ==
    DataScheme \o <<"t", "e", "x", "t", "/", "c", "s", "v", ";">>
    \o <<"b", "a", "s", "e", "6", "4", ",">> \o BuiltInPayload

BuiltInAttachments == <<[name |-> "data.csv", url |-> BuiltInUrl]>>

\* the text BuiltInPayload encodes
BuiltInText ==
    <<"P", "r", "o", "d", "u", "c", "t", "s", ",", "S", "a", "l", "e", "s",
      "\n", "P", "h", "o", "n", "e", "s", ",", "1", "0", "0", "0", "\n",
      "B", "o", "o", "k", "s", ",", "1", "2", "3", ".", "4", "5", "\n",
      "N", "o", "t", "e", "b", "o", "o", "k", "s", ",", "1", "1", "1", ".",
      "1", "1", "\n">>

MediaTypes ==
    {<<"t", "e", "x", "t", "/", "c", "s", "v">>,
     <<"t", "e", "x", "t", "/", "p", "l", "a", "i", "n">>,
     <<>>,
     <<"T", "E", "X", "T", "/", "C", "S", "V">>,
     <<"T", "e", "x", "t", "/", "P", "l", "a", "i", "n">>,
     <<"a", "p", "p", "l", "i", "c", "a", "t", "i", "o", "n", "/", "j", "s", "o", "n">>,
     <<"i", "m", "a", "g", "e", "/", "p", "n", "g">>}

Parameters ==
    {<<>>,
     <<";", "b", "a", "s", "e", "6", "4">>,
     <<";", "c", "h", "a", "r", "s", "e", "t", "=", "u", "t", "f", "-", "8">>,
     <<";", "c", "h", "a", "r", "s", "e", "t", "=", "u", "t", "f", "-", "8", ";", "b", "a", "s", "e", "6", "4">>}

Payloads ==
    {BuiltInPayload,
     <<"M", "S", "w", "y", "C", "j", "M", "s", "N", "A", "o", "=">>,
     <<"w", "6", "k", "=">>,
     <<"@", "@", "@", "@">>,
     <<"a", "b", "c", "d", "e">>,
     <<>>,
     <<"S", "a", "l", "e", "s", "%", "0", "A", "5", "%", "0", "A", "7", ".", "5", "%", "0", "A", "N", "%", "2", "F", "A">>,
     <<"x", "%", "2", "C", "1", "%", "0", "A", "y", "%", "2", "C", "%", "C", "3", "%", "A", "9">>,
     <<"%", "z", "z">>,
     <<"5", "0", "%">>}

RemoteUrl == <<"h", "t", "t", "p", "s", ":", "/", "/", "e", "x", "a", "m", "p", "l", "e", ".", "c", "o", "m", "/", "d", "a", "t", "a", ".", "c", "s", "v">>

Urls ==
    {DataScheme \o m \o p \o <<",">> \o d :
         m \in MediaTypes, p \in Parameters, d \in Payloads}
    \cup {DataScheme \o m \o p : m \in MediaTypes, p \in Parameters}
    \cup {RemoteUrl}

AttachmentLists ==
    {<<[name |-> "data.csv", url |-> u]>> : u \in Urls}
    \cup {<<>>,
          <<[name |-> "Data.csv", url |-> BuiltInUrl]>>,
          <<[name |-> "notes.txt", url |-> RemoteUrl],
            [name |-> "data.csv", url |-> BuiltInUrl]>>,
          <<[name |-> "data.csv", url |-> BuiltInUrl],
            [name |-> "data.csv", url |-> RemoteUrl]>>}

InitialClassLists == {{"loading"}, {"loading", "success", "error"}}

RECURSIVE joinCells(_, _)
joinCells(cells, d) ==
    IF Len(cells) = 0 THEN <<>>
    ELSE IF Len(cells) = 1 THEN cells[1]
    ELSE cells[1] \o <<d>> \o joinCells(Tail(cells), d)

\* the text whose lines are the given rows of cells
RECURSIVE tableText(_, _)
tableText(rs, d) ==
    IF rs = <<>> THEN <<>>
    ELSE joinCells(Head(rs), d) \o <<"\n">> \o tableText(Tail(rs), d)

HeaderRows ==
    {<<<<"N", "a", "m", "e">>, <<"S", "a", "l", "e", "s">>>>,
     <<<<"O", "n", " ", "s", "a", "l", "e">>, <<"S", "A", "L", "E", "S">>>>,
     <<<<"N", "a", "m", "e">>, <<"P", "r", "i", "c", "e">>>>,
     <<<<"W", "h", "o", "l", "e", "s", "a", "l", "e">>>>,
     <<<<"I", "d">>, <<"N", "a", "m", "e">>, <<"S", "a", "l", "e">>>>}

DataRows ==
    {<<<<"P", "h", "o", "n", "e", "s">>, <<"1", "0", "0", "0">>>>,
     <<<<"B", "o", "o", "k", "s">>, <<"1", "2", "3", ".", "4", "5">>>>,
     <<<<"P", "e", "n", "s">>, <<"N", "/", "A">>>>,
     <<<<"I", "n", "k">>>>,
     <<<<"7">>, <<"x">>, <<"2", ".", "5">>>>,
     <<<<"1", "2", "a", "b", "c">>, <<" ", "1", "e", "2">>>>,
     <<<<"x">>, <<"I", "n", "f", "i", "n", "i", "t", "y">>>>,
     <<<<"y">>, <<"-", "I", "n", "f", "i", "n", "i", "t", "y">>>>}

TableTexts ==
    {tableText(h \o d, c) :
         h \in {<<>>} \cup {<<r>> : r \in HeaderRows},
         d \in Strings(DataRows, MaxDataRows),
         c \in {",", ";"}}

SampleTexts ==
    {BuiltInText,
     <<"1", ",", "2", "\n", "3", ",", "4", "\n">>,
     <<"a", ",", "b", ";", "c", ",", "d", ",", "e">>,
     <<"\"", "1", "2", "\"", "\"", "3", "\"", "\"", "\"">>,
     <<"a", "\r", "\n", "b", "\r", "1", ",", "2">>}

CsvTexts ==
    Strings({"a", ",", ";", "\t"}, MaxChars)
    \cup Strings({"\"", "x", ","}, MaxChars)
    \cup Strings({" ", "\n", "\r", "\t"}, MaxChars)
    \cup Strings({"1", "a", ",", "\n"}, MaxChars)
    \cup TableTexts \cup SampleTexts

----------------------------------------------------------------------------
(* The page *)

Pending == [state |-> "pending", text |-> <<>>]

Init ==
    /\ attachments \in AttachmentLists
    /\ initialClassList \in InitialClassLists
    /\ readyState \in {"loading", "complete"}
    /\ listenerAdded = FALSE
    /\ pc = "load"
    /\ response = "none"
    /\ body = Pending
    /\ csvText = Locals.csvText
    /\ delimiter = Locals.delimiter
    /\ headers = Locals.headers
    /\ rows = Locals.rows
    /\ salesColumnIndex = Locals.salesColumnIndex
    /\ totalSales = Locals.totalSales
    /\ thrown = Locals.thrown
    /\ textContent = <<>>
    /\ classList = initialClassList
    /\ textWrites = 0

\* the script runs: init is called at once, or when the DOM has loaded
ScriptLoad ==
    /\ pc = "load"
    /\ UNCHANGED <<attachments, initialClassList, readyState>>
    /\ IF readyState = "loading"
       THEN /\ listenerAdded' = TRUE
            /\ pc' = "waiting"
            /\ UNCHANGED <<response, body, csvText, delimiter, headers, rows,
                           salesColumnIndex, totalSales, thrown, textContent,
                           classList, textWrites>>
       ELSE StartInit /\ UNCHANGED listenerAdded

\* the document fires DOMContentLoaded and the listener calls init
DOMContentLoaded ==
    /\ pc = "waiting"
    /\ listenerAdded
    /\ readyState' = "interactive"
    /\ StartInit
    /\ UNCHANGED <<attachments, initialClassList, listenerAdded>>

\* the transport settles the promise of fetch(url)
FetchSettles ==
    /\ pc = "awaitFetch"
    /\ response = "pending"
    /\ response' \in {"ok", "notOk", "rejected"}
    /\ UNCHANGED <<attachments, initialClassList, readyState, listenerAdded,
                   pc, body, csvText, delimiter, headers, rows,
                   salesColumnIndex, totalSales, thrown, textContent,
                   classList, textWrites>>

\* init resumes from await fetch(url)
ResumeAfterFetch ==
    /\ pc = "awaitFetch"
    /\ response # "pending"
    /\ UNCHANGED <<attachments, initialClassList, readyState, listenerAdded,
                   response>>
    /\ IF response # "ok"
       THEN /\ Complete(Throw(Locals, IF response = "rejected"
                                      THEN "fetch rejected"
                                      ELSE "Failed to fetch data"))
            /\ UNCHANGED body
       ELSE /\ pc' = "awaitText"
            /\ body' = Pending
            /\ UNCHANGED <<csvText, delimiter, headers, rows, salesColumnIndex,
                           totalSales, thrown, textContent, classList,
                           textWrites>>

\* the transport settles the promise of response.text()
TextSettles ==
    /\ pc = "awaitText"
    /\ body.state = "pending"
    /\ \/ body' = [state |-> "rejected", text |-> <<>>]
       \/ \E t \in CsvTexts : body' = [state |-> "fulfilled", text |-> t]
    /\ UNCHANGED <<attachments, initialClassList, readyState, listenerAdded,
                   pc, response, csvText, delimiter, headers, rows,
                   salesColumnIndex, totalSales, thrown, textContent,
                   classList, textWrites>>

\* init resumes from await response.text()
TextReady == pc = "awaitText" /\ body.state # "pending"

ResumeAfterText ==
    /\ TextReady
    /\ UNCHANGED <<attachments, initialClassList, readyState, listenerAdded,
                   response, body>>
    /\ IF body.state = "rejected"
       THEN Complete(Throw(Locals, "text rejected"))
       ELSE ProcessCsv(body.text)

Next ==
    \/ ScriptLoad
    \/ DOMContentLoaded
    \/ FetchSettles
    \/ ResumeAfterFetch
    \/ TextSettles
    \/ ResumeAfterText

Spec == Init /\ [][Next]_vars

\* a continuation of init runs once the promise it awaits has settled: weak
\* fairness of the two resumptions.  WF_vars(A) is
\* []<>~ENABLED <<A>>_vars \/ []<><<A>>_vars; for ResumeAfterText it is written
\* so, with TextReady for ENABLED <<ResumeAfterText>>_vars.  (The two are
\* equal: TextReady is the guard of the action, and past its guard the action
\* is a total function of the state that moves pc.)
FairSpec ==
    /\ Spec
    /\ WF_vars(ResumeAfterFetch)
    /\ ([]<>~TextReady \/ []<><<ResumeAfterText>>_vars)

----------------------------------------------------------------------------
(* Properties *)

Done == pc = "done"

NoSalesColumn == "Could not identify sales column"

UnsupportedMediaType == "Invalid MIME type for CSV data"

\* the run reached the end of its try block
Succeeded == Done /\ thrown = "none"

\* the run was caught by its catch block
Failed == Done /\ thrown # "none"

\* the run called parseCsv
Parsed == Done /\ thrown \in {"none", NoSalesColumn}

\* the element shows the error outcome
ShowsError ==
    /\ textContent = ErrorText
    /\ "error" \in classList
    /\ "loading" \notin classList
    /\ "success" \notin classList

\* the element shows the success outcome
ShowsSuccess ==
    /\ "success" \in classList
    /\ "loading" \notin classList
    /\ "error" \notin classList

\* the url init reads, <<>> when the list has no data.csv
SelectedUrl ==
    IF findAttachment(attachments) = 0 THEN <<>>
    ELSE attachments[findAttachment(attachments)].url

\* the text is a number's: after white space and a sign it starts with a
\* digit, with a point and a digit, or with Infinity
LooksNumeric(s) ==
    LET t == trimStart(s)
        u == IF t # <<>> /\ Head(t) \in {"+", "-"} THEN Tail(t) ELSE t
    IN  \/ Len(u) >= 1 /\ IsDigit(u[1])
        \/ Len(u) >= 2 /\ u[1] = "." /\ IsDigit(u[2])
        \/ startsWith(u, InfinityName)

\* the lines parseCsv kept of the text the run parsed
Lines == nonBlankLines(csvText)

\* every row parseCsv made, the header row included
AllRows == IF headers.defined /\ Lines # <<>> THEN <<headers.value>> \o rows ELSE rows

Count(line, c) == Cardinality({i \in 1..Len(line) : line[i] = c})

\* the k-th element of the set of integers S, in increasing order
Nth(S, k) == CHOOSE x \in S : Cardinality({y \in S : y <= x}) = k

\* s restricted to the indices in S
Restrict(s, S) == [k \in 1..Cardinality(S) |-> s[Nth(S, k)]]

(* C1: every failure of a run, in whatever stage, ends it with the text    *)
(* 'Error loading data' and the state 'error', 'loading' and 'success'     *)
(* removed.  The failures are taken both from what the catch block caught  *)
(* and from the inputs: no data.csv, a data: url without comma, a fetch    *)
(* that answers not-OK or rejects, a body that cannot be read.             *)
C1_FailureShowsError ==
    Done /\ ( \/ thrown # "none"
              \/ findAttachment(attachments) = 0
              \/ startsWith(SelectedUrl, DataScheme) /\ indexOf(SelectedUrl, ",") = -1
              \/ response \in {"notOk", "rejected"}
              \/ body.state = "rejected" )
    => ShowsError /\ thrown # "none"

C1_Witness ==
    /\ Done
    /\ thrown = "Failed to decode base64 data"
    /\ initialClassList = {"loading", "success", "error"}

(* C2: the text of the element is written exactly once in a run, with the  *)
(* total or with the error string, never twice and never with both; and a  *)
(* run suspended on the remote fetch ends once the transport has yielded   *)
(* the text or has failed (a status that is not OK, a rejected fetch, a    *)
(* rejected read of the body).                                             *)
WrittenOnce ==
    /\ textWrites <= 1
    /\ Done <=> textWrites = 1
    /\ Done => (IF thrown = "none" THEN ShowsSuccess ELSE ShowsError)

Settled ==
    \/ pc = "awaitFetch" /\ response \in {"notOk", "rejected"}
    \/ pc = "awaitText" /\ body.state # "pending"

C2_WrittenOnce == []WrittenOnce /\ (Settled ~> Done)

C2_Witness ==
    /\ Done
    /\ textWrites = 1
    /\ body.state = "fulfilled"
    /\ thrown = "none"

(* C3: the run on the attachment literal parses headers Products, Sales    *)
(* and 3 rows, selects column 1, sums 1234.56 and shows '1234.56' with the *)
(* state 'success', 'loading' and 'error' removed.                         *)
C3_BuiltInTotal ==
    Done /\ attachments = BuiltInAttachments =>
        /\ csvText = BuiltInText
        /\ headers = [defined |-> TRUE,
                      value |-> <<<<"P", "r", "o", "d", "u", "c", "t", "s">>,
                                  <<"S", "a", "l", "e", "s">>>>]
        /\ Len(rows) = 3
        /\ salesColumnIndex = 1
        /\ totalSales = Finite(123456, 2)
        /\ textContent = <<"1", "2", "3", "4", ".", "5", "6">>
        /\ ShowsSuccess

C3_Witness ==
    /\ Done
    /\ attachments = BuiltInAttachments
    /\ initialClassList = {"loading", "success", "error"}

(* C4: for a text that is empty or only white space, parseCsv returns no   *)
(* headers and no rows and the run shows the success outcome with a total  *)
(* of zero.                                                                *)
IsBlank(text) == \A i \in 1..Len(text) : text[i] \in WhiteSpace

C4_BlankTextSucceeds ==
    Parsed /\ IsBlank(csvText) =>
        /\ rows = <<>>
        /\ headers.value = <<>>
        /\ thrown = "none"
        /\ totalSales = Finite(0, 0)
        /\ textContent = <<"0", ".", "0", "0">>
        /\ ShowsSuccess

(* C5: the selected column is that of the leftmost header containing       *)
(* 'sale' in lower case; failing that, the leftmost column in which every  *)
(* row's field is a number's text; failing that, the run fails with        *)
(* NoSalesColumn and shows the error outcome.                              *)
SalesHeaders ==
    {i \in 0..(Len(headers.value) - 1) :
         includes(toLowerCase(headers.value[i + 1]), <<"s", "a", "l", "e">>)}

Width == IF rows = <<>> THEN 0 ELSE Len(rows[Nth({r \in 1..Len(rows) :
             \A q \in 1..Len(rows) : Len(rows[q]) <= Len(rows[r])}, 1)])

NumericColumns ==
    {i \in 0..(Width - 1) :
         \A r \in 1..Len(rows) : i < Len(rows[r]) /\ LooksNumeric(rows[r][i + 1])}

C5_ColumnSelection ==
    Parsed =>
        /\ IF headers.defined /\ SalesHeaders # {}
           THEN salesColumnIndex = Min(SalesHeaders) /\ thrown = "none"
           ELSE IF NumericColumns # {}
           THEN salesColumnIndex = Min(NumericColumns) /\ thrown = "none"
           ELSE thrown = NoSalesColumn /\ ShowsError
        /\ csvText = <<"1", ",", "2", "\n", "3", ",", "4", "\n">>
               => salesColumnIndex = 0 /\ ~headers.defined

C5_Witness ==
    /\ Succeeded
    /\ headers.defined
    /\ SalesHeaders = {}
    /\ Len(rows) = 2
    /\ salesColumnIndex = 1

(* C6: a data: url is accepted exactly when its media type, compared in    *)
(* lower case, contains 'csv' or 'text'; an absent media type counts as    *)
(* text/plain.                                                             *)
MediaType == parseDataUrl(SelectedUrl).mime

C6_MediaTypeCaseInsensitive ==
    Done /\ startsWith(SelectedUrl, DataScheme) /\ indexOf(SelectedUrl, ",") # -1 =>
        IF includes(toLowerCase(MediaType), <<"c", "s", "v">>)
           \/ includes(toLowerCase(MediaType), <<"t", "e", "x", "t">>)
        THEN thrown # UnsupportedMediaType
        ELSE thrown = UnsupportedMediaType /\ ShowsError

(* C7 as claimed: the delimiter is the candidate whose count in the first  *)
(* line is strictly higher than both others, and comma on any tie for the  *)
(* highest count or when all counts are zero.                              *)
C7_CommaOnAnyTie ==
    Parsed /\ Lines # <<>> =>
        delimiter =
            IF Count(Lines[1], ";") > Count(Lines[1], ",")
               /\ Count(Lines[1], ";") > Count(Lines[1], "\t") THEN ";"
            ELSE IF Count(Lines[1], "\t") > Count(Lines[1], ",")
               /\ Count(Lines[1], "\t") > Count(Lines[1], ";") THEN "\t"
            ELSE ","

\* the position of a candidate in the order comma, semicolon, tab
Rank(d) == IF d = "," THEN 1 ELSE IF d = ";" THEN 2 ELSE 3

(* C7 as amended: the delimiter is the candidate with the highest count in *)
(* the first line, the earliest of comma, semicolon, tab among those that  *)
(* share it (so comma when all counts are zero, semicolon on a tie between *)
(* semicolon and tab above comma).                                         *)
C7_EarliestOfHighest ==
    Parsed /\ Lines # <<>> =>
        /\ delimiter \in {",", ";", "\t"}
        /\ \A d \in {",", ";", "\t"} :
               /\ Count(Lines[1], d) <= Count(Lines[1], delimiter)
               /\ Rank(d) < Rank(delimiter)
                      => Count(Lines[1], d) < Count(Lines[1], delimiter)
        /\ Lines[1] = <<"a", ",", "b", ";", "c", ",", "d", ",", "e">>
               => delimiter = ","

C7_Witness ==
    /\ Parsed
    /\ Lines # <<>>
    /\ Count(Lines[1], ";") = Count(Lines[1], "\t")
    /\ Count(Lines[1], ";") > Count(Lines[1], ",")
    /\ delimiter = ";"

(* C8: for a text with a line, the first parsed row is taken out of rows   *)
(* and returned as headers exactly when none of its fields is a number's   *)
(* text (12abc is one); otherwise there are no headers and rows holds      *)
(* every parsed line, the first included, in order.                        *)
C8_HeaderDetection ==
    Parsed /\ Lines # <<>> =>
        LET parsed == parseLines(Lines, delimiter)
        IN  /\ headers.defined
                   <=> \A j \in 1..Len(parsed[1]) : ~LooksNumeric(parsed[1][j])
            /\ headers.defined =>
                   /\ headers.value = parsed[1]
                   /\ rows = SubSeq(parsed, 2, Len(parsed))
            /\ ~headers.defined => rows = parsed
            /\ Len(AllRows) = Len(Lines)

C8_Witness ==
    /\ Parsed
    /\ ~headers.defined
    /\ Len(rows) = 2
    /\ Len(rows[1]) = 3
    /\ LooksNumeric(rows[1][1])
    /\ ~LooksNumeric(rows[1][2])

(* C9 as claimed: the total is the sum of the numbers parsed from the      *)
(* selected column, a field that does not parse or is missing counting 0,  *)
(* and the text shown is that total with exactly two decimals.             *)
RECURSIVE ColumnSum(_, _)
ColumnSum(rs, index) ==
    IF rs = <<>> THEN Finite(0, 0)
    ELSE LET last == rs[Len(rs)]
             cell == IF index < Len(last) THEN last[index + 1] ELSE <<>>
         IN  Plus(ColumnSum(SubSeq(rs, 1, Len(rs) - 1), index),
                  IF LooksNumeric(cell) THEN parseFloat(cell) ELSE Finite(0, 0))

\* digits, a point and two digits, after an optional minus
HasTwoDecimals(text) ==
    LET u == IF text # <<>> /\ Head(text) = "-" THEN Tail(text) ELSE text
    IN  /\ Len(u) >= 4
        /\ u[Len(u) - 2] = "."
        /\ \A i \in 1..Len(u) : i # Len(u) - 2 => IsDigit(u[i])

C9_TwoDecimalsAlways ==
    Succeeded =>
        /\ totalSales = ColumnSum(rows, salesColumnIndex)
        /\ HasTwoDecimals(textContent)
        /\ parseFloat(textContent) = totalSales

(* C9 as amended: the total is that sum, and the text shown is the total   *)
(* with exactly two decimals when the total is finite; a total that is an  *)
(* infinity or NaN, which cells such as Infinity produce, is shown by its  *)
(* name.                                                                   *)
C9_TwoDecimalsWhenFinite ==
    Succeeded =>
        /\ totalSales = ColumnSum(rows, salesColumnIndex)
        /\ IF totalSales.kind = "finite"
           THEN HasTwoDecimals(textContent) /\ parseFloat(textContent) = totalSales
           ELSE textContent \in {InfinityName, <<"-">> \o InfinityName,
                                 <<"N", "a", "N">>}

C9_Witness ==
    /\ Succeeded
    /\ Len(rows) = 2
    /\ Len(rows[1]) <= salesColumnIndex
    /\ ~LooksNumeric(ElementAt(rows[1], salesColumnIndex))
    /\ totalSales = Finite(12345, 2)
    /\ textContent = <<"1", "2", "3", ".", "4", "5">>

(* C10: a field wrapped in a pair of double quotes loses them and has each *)
(* run of k inner quotes cut to the k / 2 (rounded up) quotes that         *)
(* collapsing each doubled quote leaves; any other field, a lone quote     *)
(* character included, is returned as it is.                               *)
\* the number of quotes that end at index i of s without a break
RECURSIVE QuotesUpTo(_, _)
QuotesUpTo(s, i) ==
    IF i = 0 \/ s[i] # "\"" THEN 0 ELSE 1 + QuotesUpTo(s, i - 1)

Collapsed(s) ==
    Restrict(s, {i \in 1..Len(s) : s[i] # "\"" \/ QuotesUpTo(s, i) % 2 = 1})

Unescaped(field) ==
    IF Len(field) >= 2 /\ field[1] = "\"" /\ field[Len(field)] = "\""
    THEN Collapsed(SubSeq(field, 2, Len(field) - 1))
    ELSE field

C10_FieldUnescaping ==
    Parsed /\ Lines # <<>> =>
        /\ \A i \in 1..Len(Lines) :
               LET fields == split(Lines[i], delimiter)
               IN  /\ Len(AllRows[i]) = Len(fields)
                   /\ \A j \in 1..Len(fields) :
                          AllRows[i][j] = Unescaped(fields[j])
        /\ Lines = <<<<"\"", "1", "2", "\"", "\"", "3", "\"", "\"", "\"">>>>
               => AllRows = <<<<<<"1", "2", "\"", "3", "\"">>>>>>

C10_Witness ==
    /\ Parsed
    /\ csvText = <<"\"", "1", "2", "\"", "\"", "3", "\"", "\"", "\"">>
    /\ rows = <<<<<<"1", "2", "\"", "3", "\"">>>>>>

====
